---- MODULE Spec2Model ----
(***************************************************************************)
(* Model of the AEB object tracker (aeb_object_tracking): DetectedObject,  *)
(* the three comparators, and AEBObjectTracker's operations on objects_.   *)
(*                                                                         *)
(* float values are modelled as exact rationals [n, d] in lowest terms     *)
(* with d > 0; +infinity is [n |-> 1, d |-> 0].  The inputs are finite     *)
(* numbers (no NaN), so every value the code computes is one of these.     *)
(***************************************************************************)
EXTENDS Integers, Sequences, FiniteSets, TLC

\* ------------------------------------------------------------------ bounds
\* Largest number of objects held by the tracker in the model.
MaxObjects == 3

\* Largest number of instructions a robot executes in the model.
MaxInstructions == 3

\* Largest length of the enumerated input strings of parseInstructions.
MaxInputLength == 5

\* ------------------------------------------------------------ float values
RECURSIVE Gcd(_, _)
Gcd(a, b) == IF b = 0 THEN a ELSE Gcd(b, a % b)

IAbs(x) == IF x < 0 THEN -x ELSE x

\* The float n/d (d > 0).
F(n, d) == [n |-> n, d |-> d]

\* The value x in lowest terms: the form in which an object's fields are
\* held, so that equal values are equal records.
Float(x) ==
  LET g == Gcd(IAbs(x.n), x.d) IN [n |-> x.n \div g, d |-> x.d \div g]

\* std::numeric_limits<float>::infinity()
Infinity == [n |-> 1, d |-> 0]

\* std::isinf
isinf(x) == x.d = 0

\* x < y, x <= y, x > y on floats (cross-multiplication; +infinity is 1/0).
FLess(x, y) == x.n * y.d < y.n * x.d
FLeq(x, y) == x.n * y.d <= y.n * x.d
FGreater(x, y) == FLess(y, x)

\* x + y, x - y, -x, x / y (y > 0), std::abs, std::max on finite floats.
FAdd(x, y) == F(x.n * y.d + y.n * x.d, x.d * y.d)
FSub(x, y) == F(x.n * y.d - y.n * x.d, x.d * y.d)
FNeg(x) == F(-x.n, x.d)
FDiv(x, y) == F(x.n * y.d, x.d * y.n)
FAbs(x) == F(IAbs(x.n), x.d)
FMax(x, y) == IF FLess(x, y) THEN y ELSE x

\* ---------------------------------------------------------- DetectedObject
\* calculateThreatLevel without std::max on the distance factor.
calculateThreatLevel_NoMax(distance_, collision_time_) ==
  IF FGreater(collision_time_, F(10, 1)) THEN F(0, 1)
  ELSE IF FLess(collision_time_, F(1, 1)) THEN F(1, 1)
  ELSE LET distance_factor == FSub(F(1, 1), FDiv(distance_, F(100, 1)))
           time_factor ==
             FMax(F(0, 1), FSub(F(1, 1), FDiv(collision_time_, F(10, 1))))
       IN FDiv(FAdd(distance_factor, time_factor), F(2, 1))

\* constexpr float DetectedObject::calculateThreatLevel() const
calculateThreatLevel(distance_, collision_time_) ==
  IF FGreater(collision_time_, F(10, 1)) THEN F(0, 1)
  ELSE IF FLess(collision_time_, F(1, 1)) THEN F(1, 1)
  ELSE LET distance_factor ==
             FMax(F(0, 1), FSub(F(1, 1), FDiv(distance_, F(100, 1))))
           time_factor ==
             FMax(F(0, 1), FSub(F(1, 1), FDiv(collision_time_, F(10, 1))))
       IN FDiv(FAdd(distance_factor, time_factor), F(2, 1))

\* The constructor with the velocity test written <= instead of <.
DetectedObject_Leq(obj_id, dist, rel_vel) ==
  LET collision_time_ == IF FLeq(rel_vel, F(-1, 10))
                         THEN Float(FDiv(dist, FNeg(rel_vel)))
                         ELSE Infinity
  IN [id |-> obj_id,
      distance |-> Float(dist),
      relative_velocity |-> Float(rel_vel),
      collision_time |-> collision_time_,
      threat_level |-> Float(calculateThreatLevel(dist, collision_time_))]

\* DetectedObject::DetectedObject(int obj_id, float dist, float rel_vel)
DetectedObject(obj_id, dist, rel_vel) ==
  LET collision_time_ == IF FLess(rel_vel, F(-1, 10))
                         THEN Float(FDiv(dist, FNeg(rel_vel)))
                         ELSE Infinity
  IN [id |-> obj_id,
      distance |-> Float(dist),
      relative_velocity |-> Float(rel_vel),
      collision_time |-> collision_time_,
      threat_level |-> Float(calculateThreatLevel(dist, collision_time_))]

\* DetectedObject::DetectedObject() : DetectedObject(0, 0.0f, 0.0f)
DefaultDetectedObject == DetectedObject(0, F(0, 1), F(0, 1))

\* bool DetectedObject::operator<(const DetectedObject &other) const
OperatorLess(a, b) == FLess(a.collision_time, b.collision_time)

\* ------------------------------------------------------------- comparators
\* byCollisionTime with the last comparison written <= instead of <.
byCollisionTime_Leq(first_object, second_object) ==
  LET first_collision_time == first_object.collision_time
      second_collision_time == second_object.collision_time
  IN IF isinf(first_collision_time) /\ isinf(second_collision_time)
       THEN FLess(first_object.distance, second_object.distance)
     ELSE IF isinf(first_collision_time) THEN FALSE
     ELSE IF isinf(second_collision_time) THEN TRUE
     ELSE FLeq(first_collision_time, second_collision_time)

\* byCollisionTime with the first test written || instead of &&: distance
\* decides as soon as one of the two collision times is infinite.
byCollisionTime_EitherInfinite(first_object, second_object) ==
  LET first_collision_time == first_object.collision_time
      second_collision_time == second_object.collision_time
  IN IF isinf(first_collision_time) \/ isinf(second_collision_time)
       THEN FLess(first_object.distance, second_object.distance)
     ELSE FLess(first_collision_time, second_collision_time)

\* AEBObjectTracker::Comparators::byCollisionTime
byCollisionTime(first_object, second_object) ==
  LET first_collision_time == first_object.collision_time
      second_collision_time == second_object.collision_time
  IN IF isinf(first_collision_time) /\ isinf(second_collision_time)
       THEN FLess(first_object.distance, second_object.distance)
     ELSE IF isinf(first_collision_time) THEN FALSE
     ELSE IF isinf(second_collision_time) THEN TRUE
     ELSE FLess(first_collision_time, second_collision_time)

\* constexpr float kThreatLevelFactor{0.001f}
kThreatLevelFactor == F(1, 1000)

\* byThreatLevel with the distance tie-break written <= instead of <.
byThreatLevel_Leq(first_object, second_object) ==
  IF FLess(FAbs(FSub(first_object.threat_level, second_object.threat_level)),
           kThreatLevelFactor)
    THEN FLeq(first_object.distance, second_object.distance)
  ELSE FGreater(first_object.threat_level, second_object.threat_level)

\* byThreatLevel without the band of kThreatLevelFactor: distance decides
\* only between equal threat levels.
byThreatLevel_NoBand(first_object, second_object) ==
  IF first_object.threat_level = second_object.threat_level
    THEN FLess(first_object.distance, second_object.distance)
  ELSE FGreater(first_object.threat_level, second_object.threat_level)

\* AEBObjectTracker::Comparators::byThreatLevel
byThreatLevel(first_object, second_object) ==
  IF FLess(FAbs(FSub(first_object.threat_level, second_object.threat_level)),
           kThreatLevelFactor)
    THEN FLess(first_object.distance, second_object.distance)
  ELSE FGreater(first_object.threat_level, second_object.threat_level)

\* constexpr float threat_epsilon = 0.01f; constexpr float time_epsilon = 0.1f
threat_epsilon == F(1, 100)
time_epsilon == F(1, 10)

\* AEBObjectTracker::multiCriteriaComparator
multiCriteriaComparator(first_object, second_object) ==
  LET first_collision_time == first_object.collision_time
      second_collision_time == second_object.collision_time
  IN IF FGreater(FAbs(FSub(first_object.threat_level,
                           second_object.threat_level)), threat_epsilon)
       THEN FGreater(first_object.threat_level, second_object.threat_level)
     ELSE IF /\ ~isinf(first_collision_time)
             /\ ~isinf(second_collision_time)
             /\ FGreater(FAbs(FSub(first_collision_time,
                                   second_collision_time)), time_epsilon)
       THEN FLess(first_collision_time, second_collision_time)
     ELSE FLess(first_object.distance, second_object.distance)

\* ------------------------------------------------------------- <algorithm>
\* A comparator enters the algorithms as its table over the positions of the
\* sequence: lt[i, j] is comp(s[i], s[j]).
\*
\* The comparison table lt over positions I is that of a strict weak ordering:
\* what std::sort and std::partial_sort require of their comparator on the
\* elements they are given.
IsStrictWeakOrdering(lt, I) ==
  /\ \A i \in I : ~lt[i, i]
  /\ \A i, j \in I : lt[i, j] => \A k \in I : lt[j, k] => lt[i, k]
  /\ \A i, j \in I :
       ~lt[i, j] /\ ~lt[j, i]
       => \A k \in I : ~lt[j, k] /\ ~lt[k, j] => ~lt[i, k] /\ ~lt[k, i]

\* s rearranged: position i holds the element that was at position p[i].
Rearranged(s, p) == [i \in DOMAIN s |-> s[p[i]]]

\* std::sort(first, last, comp): the sequences it may leave.  The result is
\* sorted with respect to comp; the order of equivalent elements is not
\* specified.  With a comparator that is no strict weak ordering on the
\* elements the behaviour is undefined: any rearrangement may result.
StdSort(s, lt) ==
  LET defined == IsStrictWeakOrdering(lt, DOMAIN s)
  IN {Rearranged(s, p) : p \in
        {q \in Permutations(DOMAIN s) :
           defined => \A i, j \in DOMAIN s : i < j => ~lt[q[j], q[i]]}}

\* std::partial_sort(first, first + middle, last, comp): the `middle` smallest
\* elements sorted in front, the others behind them in an unspecified order.
StdPartialSort(s, middle, lt) ==
  LET defined == IsStrictWeakOrdering(lt, DOMAIN s)
  IN {Rearranged(s, p) : p \in
        {q \in Permutations(DOMAIN s) :
           defined => \A i \in 1..middle : \A j \in DOMAIN s :
                        i < j => ~lt[q[j], q[i]]}}

Min(a, b) == IF a < b THEN a ELSE b

\* -------------------------------------------------------- AEBObjectTracker
\* The contents of objects_ that each operation may leave, and the values the
\* queries return, as functions of the current objects_.

\* addObject refusing an object whose id is already stored.
addObject_UniqueId(objects_, object) ==
  IF \E i \in DOMAIN objects_ : objects_[i].id = object.id THEN objects_
  ELSE Append(objects_, object)

\* void AEBObjectTracker::addObject(const DetectedObject &object)
addObject(objects_, object) == Append(objects_, object)

\* size_t AEBObjectTracker::size() const
size(objects_) == Len(objects_)

\* sortByCollisionTime sorting with DetectedObject::operator<, which does not
\* look at the distance of objects that never collide.
sortByCollisionTime_OperatorLess(objects_) ==
  StdSort(objects_, [i \in DOMAIN objects_, j \in DOMAIN objects_ |->
                     OperatorLess(objects_[i], objects_[j])])

\* void AEBObjectTracker::sortByCollisionTime()
sortByCollisionTime(objects_) ==
  StdSort(objects_, [i \in DOMAIN objects_, j \in DOMAIN objects_ |->
                     byCollisionTime(objects_[i], objects_[j])])

\* void AEBObjectTracker::sortByThreatLevel()
sortByThreatLevel(objects_) ==
  StdSort(objects_, [i \in DOMAIN objects_, j \in DOMAIN objects_ |->
                     byCollisionTime(objects_[i], objects_[j])])

\* partialSortCriticalObjects sorting only the first num_to_sort elements
\* among themselves: std::sort(begin, begin + num_to_sort, comp).
partialSortCriticalObjects_PrefixOnly(objects_, max_objects) ==
  LET num_to_sort == Min(max_objects, Len(objects_))
      front == SubSeq(objects_, 1, num_to_sort)
  IN {prefix \o SubSeq(objects_, num_to_sort + 1, Len(objects_)) :
        prefix \in StdSort(front, [i \in DOMAIN front, j \in DOMAIN front |->
                                    byCollisionTime(front[i], front[j])])}

\* void AEBObjectTracker::partialSortCriticalObjects(size_t max_objects)
partialSortCriticalObjects(objects_, max_objects) ==
  IF objects_ = <<>> THEN {objects_}
  ELSE LET num_to_sort == Min(max_objects, Len(objects_))
       IN StdPartialSort(objects_, num_to_sort,
                         [i \in DOMAIN objects_, j \in DOMAIN objects_ |->
                            byCollisionTime(objects_[i], objects_[j])])

\* sortMultiCriteria keeping one object of each id: sort followed by
\* std::unique on the ids (without erase the tail is left unspecified; here
\* the later duplicates are overwritten by the first).
sortMultiCriteria_Unique(objects_) ==
  LET sorted == StdSort(objects_,
                        [i \in DOMAIN objects_, j \in DOMAIN objects_ |->
                           multiCriteriaComparator(objects_[i], objects_[j])])
  IN {[i \in DOMAIN s |->
         s[CHOOSE j \in DOMAIN s :
             /\ s[j].id = s[i].id
             /\ \A k \in 1..(j - 1) : s[k].id # s[i].id]] : s \in sorted}

\* void AEBObjectTracker::sortMultiCriteria()
sortMultiCriteria(objects_) ==
  StdSort(objects_, [i \in DOMAIN objects_, j \in DOMAIN objects_ |->
                     multiCriteriaComparator(objects_[i], objects_[j])])

\* getCriticalObjects returning the most critical objects of a sorted copy
\* rather than the first stored ones.
getCriticalObjects_Sorted(objects_, max_objects) ==
  LET num_objects == IF max_objects < Len(objects_) THEN max_objects
                     ELSE Len(objects_)
      sorted == CHOOSE s \in StdSort(objects_,
                  [i \in DOMAIN objects_, j \in DOMAIN objects_ |->
                     byCollisionTime(objects_[i], objects_[j])]) : TRUE
  IN SubSeq(sorted, 1, num_objects)

\* std::vector<DetectedObject> AEBObjectTracker::getCriticalObjects(size_t)
getCriticalObjects(objects_, max_objects) ==
  LET num_objects == Min(max_objects, Len(objects_))
  IN SubSeq(objects_, 1, num_objects)

\* The threshold test without !std::isinf: an infinite collision time passes
\* an infinite threshold.
withinTimeThreshold_NoIsinf(obj, threshold_seconds) ==
  FLeq(obj.collision_time, threshold_seconds)

\* The test of getObjectsWithinTimeThreshold and hasCriticalObjects on one
\* object: [threshold_seconds](const DetectedObject &obj) { ... }
withinTimeThreshold(obj, threshold_seconds) ==
  ~isinf(obj.collision_time) /\ FLeq(obj.collision_time, threshold_seconds)

\* std::copy_if(first, last, std::back_inserter(critical_objects), pred) with
\* the test above: the elements from position first on that pass it, appended
\* in order.
RECURSIVE copy_if(_, _, _)
copy_if(objects_, first, threshold_seconds) ==
  IF first > Len(objects_) THEN <<>>
  ELSE IF withinTimeThreshold(objects_[first], threshold_seconds)
    THEN <<objects_[first]>> \o copy_if(objects_, first + 1, threshold_seconds)
  ELSE copy_if(objects_, first + 1, threshold_seconds)

\* std::vector<DetectedObject>
\* AEBObjectTracker::getObjectsWithinTimeThreshold(float threshold_seconds)
getObjectsWithinTimeThreshold(objects_, threshold_seconds) ==
  copy_if(objects_, 1, threshold_seconds)

\* std::find_if(first, last, [id](obj) { return obj.getId() == id; }): the
\* first position from first on whose object has the id, last when there is
\* none.  An iterator is a position of objects_; end() is Len(objects_) + 1.
RECURSIVE find_if(_, _, _)
find_if(objects_, first, id) ==
  IF first > Len(objects_) THEN first
  ELSE IF objects_[first].id = id THEN first
  ELSE find_if(objects_, first + 1, id)

\* findObjectById returning the last stored object with the id.
findObjectById_Last(objects_, id) ==
  IF \E i \in DOMAIN objects_ : objects_[i].id = id
    THEN CHOOSE i \in DOMAIN objects_ :
           /\ objects_[i].id = id
           /\ \A j \in (i + 1)..Len(objects_) : objects_[j].id # id
  ELSE Len(objects_) + 1

\* AEBObjectTracker::findObjectById(int id) const
findObjectById(objects_, id) == find_if(objects_, 1, id)

\* hasCriticalObjects with std::all_of instead of std::any_of.
hasCriticalObjects_AllOf(objects_, threshold_seconds) ==
  \A i \in DOMAIN objects_ :
    withinTimeThreshold(objects_[i], threshold_seconds)

\* hasCriticalObjects comparing with < instead of <=.
hasCriticalObjects_Less(objects_, threshold_seconds) ==
  \E i \in DOMAIN objects_ :
    /\ ~isinf(objects_[i].collision_time)
    /\ FLess(objects_[i].collision_time, threshold_seconds)

\* bool AEBObjectTracker::hasCriticalObjects(float threshold_seconds) const
hasCriticalObjects(objects_, threshold_seconds) ==
  \E i \in DOMAIN objects_ :
    withinTimeThreshold(objects_[i], threshold_seconds)

\* ------------------------------------------------------------------ inputs
\* float literals of the callers: whole numbers and tenths.
R(x) == F(x, 1)
Tenths(x) == F(x, 10)

\* The objects the tracker is fed: the five of testBasicSorting, the two of
\* the tie-breaking case of testEdgeCases and the stationary object of the
\* test InfiniteCollisionTime.
Inputs ==
  { DetectedObject(1, R(50), R(-10)),
    DetectedObject(2, R(20), R(-20)),
    DetectedObject(3, R(100), R(5)),
    DetectedObject(4, R(30), R(-15)),
    DetectedObject(5, R(80), R(-8)),
    DetectedObject(1, R(20), R(-10)),
    DetectedObject(2, R(40), R(-20)),
    DetectedObject(1, R(9), R(0)) }

\* The objects the comparators are applied to: those above, object 3 of
\* testMultiCriteriaSort, object 3 of testModernFeatures, the pair of
\* FiniteCollisionThreatlevelSame, the default-constructed object, objects
\* near the edges of the comparators' epsilon bands, one with a negative
\* distance and one with a velocity of exactly -0.1.
ComparatorInputs ==
  Inputs \cup
  { DetectedObject(3, R(25), R(-12)),
    DetectedObject(3, R(100), R(2)),
    DetectedObject(10, R(50), R(-5)),
    DetectedObject(11, R(50), R(-5)),
    DetectedObject(0, R(0), R(0)),
    DetectedObject(6, R(500), Tenths(-501)),
    DetectedObject(7, R(600), Tenths(-602)),
    DetectedObject(8, R(110), R(-10)),
    DetectedObject(9, R(12), R(-1)),
    DetectedObject(12, R(-10), R(-10)),
    DetectedObject(13, R(5), Tenths(-1)) }

\* The objects of the query scenarios: the three of testModernFeatures, a
\* second object with id 1 (testEdgeCases), and two objects whose threat
\* levels, 0.755 and 0.76, are within threat_epsilon of each other.
ScenarioInputs ==
  { DetectedObject(1, R(15), R(-20)),
    DetectedObject(2, R(50), R(-5)),
    DetectedObject(3, R(100), R(2)),
    DetectedObject(1, R(20), R(-10)),
    DetectedObject(5, R(29), Tenths(-145)),
    DetectedObject(6, R(24), R(-10)) }

\* The thresholds of testModernFeatures (1, 2 and 15 seconds), the collision
\* time of its object 2, and +infinity.
Thresholds == {R(1), R(2), R(10), R(15), Infinity}

\* The ids looked up: ids stored once or twice, and testModernFeatures's 999.
Ids == {1, 2, 3, 999}

\* =============================================================== robot_nav
\* The robot navigator (namespace robot_nav).

\* constexpr std::int32_t kGridSize = 10, kStartX = 5, kStartY = 5
kGridSize == 10
kStartX == 5
kStartY == 5

\* enum class Direction : std::uint8_t
kNorth == 0
kEast == 1
kSouth == 2
kWest == 3

\* enum class Turn : std::uint8_t { kLeft, kRight }
kLeft == 0
kRight == 1

\* Position::Position(std::int32_t x, std::int32_t y)
Position(x, y) == [x_ |-> x, y_ |-> y]

\* Position() with the default arguments kStartX, kStartY
DefaultPosition == Position(kStartX, kStartY)

\* static std::uint32_t Position::getManhattanDistance(from, to)
PositionGetManhattanDistance(from, to) ==
  LET dx == IAbs(to.x_ - from.x_)
      dy == IAbs(to.y_ - from.y_)
  IN dx + dy

\* Instruction::Instruction(Turn turn, std::uint32_t steps)
Instruction(turn, steps) == [turn_ |-> turn, steps_ |-> steps]

\* Robot::Robot(Position start_pos, Direction start_dir)
Robot(start_pos, start_dir) ==
  [position_ |-> start_pos,
   direction_ |-> start_dir,
   path_history_ |-> <<start_pos>>]

\* static constexpr std::array<std::int32_t, 4> kDeltaX, kDeltaY (N, E, S, W),
\* indexed here from 1.
kDeltaX == <<0, 1, 0, -1>>
kDeltaY == <<-1, 0, 1, 0>>

\* std::clamp(v, lo, hi)
clamp(v, lo, hi) == IF v < lo THEN lo ELSE IF hi < v THEN hi ELSE v

\* calculateNewDirection turning left by two quarter turns.
calculateNewDirection_LeftTwo(robot, turn) ==
  LET current == robot.direction_
  IN IF turn = kRight THEN (current + 1) % 4 ELSE (current + 2) % 4

\* Direction Robot::calculateNewDirection(Turn turn) const
calculateNewDirection(robot, turn) ==
  LET current == robot.direction_
  IN IF turn = kRight THEN (current + 1) % 4 ELSE (current + 3) % 4

\* calculateNewPosition clamping to 0..kGridSize instead of 0..kGridSize - 1.
calculateNewPosition_GridSize(robot) ==
  LET dir_index == robot.direction_
      new_x == robot.position_.x_ + kDeltaX[dir_index + 1]
      new_y == robot.position_.y_ + kDeltaY[dir_index + 1]
  IN Position(clamp(new_x, 0, kGridSize), clamp(new_y, 0, kGridSize))

\* Position Robot::calculateNewPosition() const
calculateNewPosition(robot) ==
  LET dir_index == robot.direction_
      new_x == robot.position_.x_ + kDeltaX[dir_index + 1]
      new_y == robot.position_.y_ + kDeltaY[dir_index + 1]
  IN Position(clamp(new_x, 0, kGridSize - 1), clamp(new_y, 0, kGridSize - 1))

\* The loop of executeInstruction: for (step = 0; step < steps; ++step)
\* { position_ = calculateNewPosition(); path_history_.push_back(position_); }
RECURSIVE moveForward(_, _)
moveForward(robot, steps) ==
  IF steps = 0 THEN robot
  ELSE LET position == calculateNewPosition(robot)
       IN moveForward([robot EXCEPT
                         !.position_ = position,
                         !.path_history_ = Append(@, position)],
                      steps - 1)

\* The loop recording a position only when the robot has moved.
RECURSIVE moveForward_SkipClamped(_, _)
moveForward_SkipClamped(robot, steps) ==
  IF steps = 0 THEN robot
  ELSE LET position == calculateNewPosition(robot)
       IN moveForward_SkipClamped(
            [robot EXCEPT
               !.position_ = position,
               !.path_history_ = IF position = robot.position_ THEN @
                                 ELSE Append(@, position)],
            steps - 1)

\* executeInstruction not recording the steps clamped at the grid edge.
executeInstruction_SkipClamped(robot, instruction) ==
  moveForward_SkipClamped(
    [robot EXCEPT
       !.direction_ = calculateNewDirection(robot, instruction.turn_)],
    instruction.steps_)

\* void Robot::executeInstruction(const Instruction& instruction)
executeInstruction(robot, instruction) ==
  moveForward(
    [robot EXCEPT
       !.direction_ = calculateNewDirection(robot, instruction.turn_)],
    instruction.steps_)

\* void Robot::executeInstructions(const std::vector<Instruction>&)
RECURSIVE executeInstructions(_, _)
executeInstructions(robot, instructions) ==
  IF instructions = <<>> THEN robot
  ELSE executeInstructions(executeInstruction(robot, Head(instructions)),
                           Tail(instructions))

\* Position Robot::getStartPosition() const
getStartPosition(robot) ==
  IF robot.path_history_ = <<>> THEN DefaultPosition
  ELSE robot.path_history_[1]

\* std::uint32_t Robot::getActualSteps() const
getActualSteps(robot) == Len(robot.path_history_) - 1

\* std::uint32_t Robot::getManhattanDistance() const
getManhattanDistance(robot) ==
  IF robot.path_history_ = <<>> THEN 0
  ELSE PositionGetManhattanDistance(robot.path_history_[1], robot.position_)

\* getEfficiencyPercent returning 0 for a robot that has taken no step.
getEfficiencyPercent_ZeroWhenIdle(robot) ==
  LET actual == getActualSteps(robot)
      manhattan == getManhattanDistance(robot)
  IN IF actual = 0 THEN F(0, 1) ELSE F(manhattan * 100, actual)

\* double Robot::getEfficiencyPercent() const, as an exact rational
getEfficiencyPercent(robot) ==
  LET actual == getActualSteps(robot)
      manhattan == getManhattanDistance(robot)
  IN IF actual = 0 THEN (IF manhattan = 0 THEN F(100, 1) ELSE F(0, 1))
     ELSE F(manhattan * 100, actual)

\* ------------------------------------------------------- parseInstructions
\* A std::string is the sequence of its characters.  The inputs hold no sign
\* character and no white space other than the space.
Digits == {"0", "1", "2", "3", "4", "5", "6", "7", "8", "9"}

DigitValue(c) ==
  CASE c = "0" -> 0 [] c = "1" -> 1 [] c = "2" -> 2 [] c = "3" -> 3
    [] c = "4" -> 4 [] c = "5" -> 5 [] c = "6" -> 6 [] c = "7" -> 7
    [] c = "8" -> 8 [] c = "9" -> 9

\* std::numeric_limits<int>::max(), the largest value std::stoi returns
INT_MAX == 2147483647

\* The digits of str from position i on added to value, as std::stoi
\* converts them; -1 when the value leaves the range of int.
RECURSIVE stoiDigits(_, _, _)
stoiDigits(str, i, value) ==
  IF i > Len(str) \/ str[i] \notin Digits THEN value
  ELSE LET digit == DigitValue(str[i])
       IN IF value > (INT_MAX - digit) \div 10 THEN -1
          ELSE stoiDigits(str, i + 1, value * 10 + digit)

\* std::stoi rejecting the largest int as out of range.
stoi_BelowIntMax(str) ==
  IF str = <<>> \/ str[1] \notin Digits
    THEN [exception |-> "std::invalid_argument", value |-> 0]
  ELSE LET value == stoiDigits(str, 1, 0)
       IN IF value < 0 \/ value = INT_MAX
            THEN [exception |-> "std::out_of_range", value |-> 0]
          ELSE [exception |-> "none", value |-> value]

\* std::stoi(str): the int the leading digits of str denote, whatever follows
\* them; std::invalid_argument without a leading digit, std::out_of_range
\* when the number does not fit an int.
stoi(str) ==
  IF str = <<>> \/ str[1] \notin Digits
    THEN [exception |-> "std::invalid_argument", value |-> 0]
  ELSE LET value == stoiDigits(str, 1, 0)
       IN IF value < 0 THEN [exception |-> "std::out_of_range", value |-> 0]
          ELSE [exception |-> "none", value |-> value]

\* The body applied to a completed token: the turn from its first character,
\* the step count from the rest.
parseToken(current_token) ==
  LET turn == IF current_token[1] = "L" THEN kLeft ELSE kRight
      steps == stoi(Tail(current_token))
  IN [exception |-> steps.exception,
      instruction |-> Instruction(turn, steps.value)]

\* The loop of parseInstructions from character i of input on, and the
\* handling of the last token after it.  An exception leaves the function:
\* no vector is returned.
RECURSIVE parseFrom(_, _, _, _)
parseFrom(input, i, current_token, instructions) ==
  IF i > Len(input)
    THEN IF current_token # <<>>
           THEN LET token == parseToken(current_token)
                IN IF token.exception # "none"
                     THEN [exception |-> token.exception, instructions |-> <<>>]
                   ELSE [exception |-> "none",
                         instructions |-> Append(instructions, token.instruction)]
         ELSE [exception |-> "none", instructions |-> instructions]
  ELSE LET c == input[i]
       IN IF c = ","
            THEN IF current_token # <<>>
                   THEN LET token == parseToken(current_token)
                        IN IF token.exception # "none"
                             THEN [exception |-> token.exception,
                                   instructions |-> <<>>]
                           ELSE parseFrom(input, i + 1, <<>>,
                                          Append(instructions, token.instruction))
                 ELSE parseFrom(input, i + 1, current_token, instructions)
          ELSE IF c # " "
            THEN parseFrom(input, i + 1, Append(current_token, c), instructions)
          ELSE parseFrom(input, i + 1, current_token, instructions)

\* std::vector<Instruction> parseInstructions(const std::string& input)
parseInstructions(input) == parseFrom(input, 1, <<>>, <<>>)

\* ------------------------------------------------------------------- state
VARIABLES
  objects,   \* AEBObjectTracker::objects_
  op,        \* the operation called last
  arg,       \* its size_t or int argument (0 when it has none)
  answer,    \* the bool the last call returned (FALSE when none)
  again,     \* sortByCollisionTime() was called twice in a row
  threshold, \* the float argument of the last call (0 when it has none)
  result,    \* the vector the last call returned (empty when none)
  found,     \* the iterator the last call returned (0 when none)
  robot,       \* the Robot: position_, direction_, path_history_
  constructed, \* the arguments its constructor was called with
  executed,    \* the instructions it has executed since, in order
  input,       \* the string parseInstructions was called with last
  parsed,      \* what that call produced: a vector or the exception thrown
  test,        \* index of the embedded test case run last (0 when none)
  passed       \* the bool passed of that test case (FALSE when none)

trackerVars == <<objects, op, arg, answer, again, threshold, result, found>>

robotVars == <<robot, constructed, executed>>

parserVars == <<input, parsed>>

testVars == <<test, passed>>

vars == <<trackerVars, robotVars, parserVars, testVars>>

\* Arguments callers pass for max_objects and capacity: up to one more than
\* the tracker can hold.
Args == 0..(MaxObjects + 1)

Init ==
  /\ objects = <<>>
  /\ op = "AEBObjectTracker"
  /\ arg = 0
  /\ answer = FALSE
  /\ again = FALSE
  /\ threshold = R(0)
  /\ result = <<>>
  /\ found = 0
  /\ robot = Robot(DefaultPosition, kNorth)
  /\ constructed = [start_pos |-> DefaultPosition, start_dir |-> kNorth]
  /\ executed = <<>>
  /\ input = <<>>
  /\ parsed = [exception |-> "none", instructions |-> <<>>]
  /\ test = 0
  /\ passed = FALSE

\* The bookkeeping of a call of operation name with argument a.
Called(name, a) ==
  /\ op' = name
  /\ arg' = a
  /\ again' = (name = "sortByCollisionTime" /\ op = name)
  /\ threshold' = R(0)
  /\ result' = <<>>
  /\ found' = 0
  /\ UNCHANGED <<robotVars, parserVars, testVars>>

\* tracker.addObject(object)
AddObject ==
  \E object \in Inputs :
    /\ Len(objects) < MaxObjects
    /\ objects' = addObject(objects, object)
    /\ Called("addObject", 0)
    /\ answer' = FALSE

\* tracker.reserveCapacity(capacity)
ReserveCapacity ==
  \E capacity \in Args :
    /\ objects' = objects
    /\ Called("reserveCapacity", 0)
    /\ answer' = FALSE

\* tracker.clear()
Clear ==
  /\ objects' = <<>>
  /\ Called("clear", 0)
  /\ answer' = FALSE

\* tracker.sortByCollisionTime()
SortByCollisionTime ==
  /\ objects' \in sortByCollisionTime(objects)
  /\ Called("sortByCollisionTime", 0)
  /\ answer' = FALSE

\* tracker.sortByThreatLevel()
SortByThreatLevel ==
  /\ objects' \in sortByThreatLevel(objects)
  /\ Called("sortByThreatLevel", 0)
  /\ answer' = FALSE

\* tracker.partialSortCriticalObjects(max_objects)
PartialSortCriticalObjects ==
  \E max_objects \in Args :
    /\ objects' \in partialSortCriticalObjects(objects, max_objects)
    /\ Called("partialSortCriticalObjects", max_objects)
    /\ answer' = FALSE

\* tracker.sortMultiCriteria()
SortMultiCriteria ==
  /\ objects' \in sortMultiCriteria(objects)
  /\ Called("sortMultiCriteria", 0)
  /\ answer' = FALSE

Next ==
  \/ AddObject
  \/ ReserveCapacity
  \/ Clear
  \/ SortByCollisionTime
  \/ SortByThreatLevel
  \/ PartialSortCriticalObjects
  \/ SortMultiCriteria

Spec == Init /\ [][Next]_vars

\* ------------------------------------------------- the comparators applied
\* The comparators as pure functions: up to MaxObjects objects are
\* constructed (held in objects, in construction order) and a comparator is
\* applied to the first two, its result held in answer.

\* DetectedObject object(obj_id, dist, rel_vel)
Construct ==
  \E object \in ComparatorInputs :
    /\ Len(objects) < MaxObjects
    /\ objects' = Append(objects, object)
    /\ Called("DetectedObject", 0)
    /\ answer' = FALSE

\* The constructed objects go out of scope.
Destroy ==
  /\ objects' = <<>>
  /\ Called("~DetectedObject", 0)
  /\ answer' = FALSE

\* AEBObjectTracker::Comparators::byCollisionTime(object1, object2)
ByCollisionTime ==
  /\ Len(objects) >= 2
  /\ objects' = objects
  /\ Called("byCollisionTime", 0)
  /\ answer' = byCollisionTime(objects[1], objects[2])

\* AEBObjectTracker::Comparators::byThreatLevel(object1, object2)
ByThreatLevel ==
  /\ Len(objects) >= 2
  /\ objects' = objects
  /\ Called("byThreatLevel", 0)
  /\ answer' = byThreatLevel(objects[1], objects[2])

\* multiCriteriaComparator(object1, object2)
MultiCriteriaComparator ==
  /\ Len(objects) >= 2
  /\ objects' = objects
  /\ Called("multiCriteriaComparator", 0)
  /\ answer' = multiCriteriaComparator(objects[1], objects[2])

NextComparators ==
  \/ Construct
  \/ Destroy
  \/ ByCollisionTime
  \/ ByThreatLevel
  \/ MultiCriteriaComparator

SpecComparators == Init /\ [][NextComparators]_vars

\* ------------------------------------------------- the tracker's queries
\* The tracker fed the objects of the query scenarios, with every operation
\* and every query (const member function) callable at any time.

\* tracker.addObject(object) with an object of the scenarios
AddScenarioObject ==
  \E object \in ScenarioInputs :
    /\ size(objects) < MaxObjects
    /\ objects' = addObject(objects, object)
    /\ Called("addObject", 0)
    /\ answer' = FALSE

\* The bookkeeping of a call of the const member function name.
Queried(name, a, t) ==
  /\ objects' = objects
  /\ op' = name
  /\ arg' = a
  /\ threshold' = t
  /\ again' = FALSE
  /\ UNCHANGED <<robotVars, parserVars, testVars>>

\* tracker.getCriticalObjects(max_objects)
GetCriticalObjects ==
  \E max_objects \in Args :
    /\ Queried("getCriticalObjects", max_objects, R(0))
    /\ result' = getCriticalObjects(objects, max_objects)
    /\ answer' = FALSE
    /\ found' = 0

\* tracker.getObjectsWithinTimeThreshold(threshold_seconds)
GetObjectsWithinTimeThreshold ==
  \E threshold_seconds \in Thresholds :
    /\ Queried("getObjectsWithinTimeThreshold", 0, threshold_seconds)
    /\ result' = getObjectsWithinTimeThreshold(objects, threshold_seconds)
    /\ answer' = FALSE
    /\ found' = 0

\* tracker.hasCriticalObjects(threshold_seconds)
HasCriticalObjects ==
  \E threshold_seconds \in Thresholds :
    /\ Queried("hasCriticalObjects", 0, threshold_seconds)
    /\ answer' = hasCriticalObjects(objects, threshold_seconds)
    /\ result' = <<>>
    /\ found' = 0

\* tracker.findObjectById(id)
FindObjectById ==
  \E id \in Ids :
    /\ Queried("findObjectById", id, R(0))
    /\ found' = findObjectById(objects, id)
    /\ answer' = FALSE
    /\ result' = <<>>

NextQueries ==
  \/ AddScenarioObject
  \/ ReserveCapacity
  \/ Clear
  \/ SortByCollisionTime
  \/ SortByThreatLevel
  \/ PartialSortCriticalObjects
  \/ SortMultiCriteria
  \/ GetCriticalObjects
  \/ GetObjectsWithinTimeThreshold
  \/ HasCriticalObjects
  \/ FindObjectById

SpecQueries == Init /\ [][NextQueries]_vars

\* ----------------------------------------------------------- robot inputs
Directions == {kNorth, kEast, kSouth, kWest}

Turns == {kLeft, kRight}

\* Start positions: the default, the corners and edges of the grid, the
\* custom starts of the demonstrations, and two positions outside the grid.
Starts ==
  {DefaultPosition, Position(0, 0), Position(9, 9), Position(0, 9),
   Position(9, 0), Position(0, 5), Position(5, 0), Position(2, 7),
   Position(8, 1), Position(12, 12), Position(-30, 5)}

\* The start position lies inside the grid.
InsideGrid(position) ==
  /\ 0 <= position.x_ /\ position.x_ < kGridSize
  /\ 0 <= position.y_ /\ position.y_ < kGridSize

\* Step counts of the instructions given to a robot.
StepCounts == {0, 1, 2, 5}

\* ------------------------------------------------- robot specification
\* Robot robot(start_pos, start_dir)
NewRobot ==
  \E start_pos \in Starts, start_dir \in Directions :
    /\ robot' = Robot(start_pos, start_dir)
    /\ constructed' = [start_pos |-> start_pos, start_dir |-> start_dir]
    /\ executed' = <<>>
    /\ UNCHANGED <<trackerVars, parserVars, testVars>>

\* robot.executeInstruction(Instruction(turn, steps))
ExecuteInstruction ==
  \E turn \in Turns, steps \in StepCounts :
    /\ Len(executed) < MaxInstructions
    /\ robot' = executeInstruction(robot, Instruction(turn, steps))
    /\ executed' = Append(executed, Instruction(turn, steps))
    /\ UNCHANGED <<constructed, trackerVars, parserVars, testVars>>

NextRobot ==
  \/ NewRobot
  \/ ExecuteInstruction

SpecRobot == Init /\ [][NextRobot]_vars

\* ------------------------------------------------ parser specification
\* The characters of the enumerated inputs.
Alphabet == {"L", "R", "X", "0", "1", ",", " "}

\* The instruction strings of the embedded test suite, the demonstrations
\* and the unit tests.
BasicExample == <<"R", "2", ",", "L", "3", ",", "L", "1">>
SimpleSquare == <<"R", "1", ",", "R", "1", ",", "R", "1", ",", "R", "1">>
PerfectCross == <<"R", "2", ",", "L", "2", ",", "L", "2", ",", "L", "2">>
DiagonalPath ==
  <<"R", "1", ",", "L", "1", ",", "R", "1", ",", "L", "1", ",",
    "R", "1", ",", "L", "1">>
EdgeTest == <<"R", "5", ",", "R", "5", ",", "R", "5", ",", "R", "5">>
DirectPath == <<"R", "2", ",", "R", "2">>
ComplexPath ==
  <<"R", "1", ",", "L", "1", ",", "R", "1", ",", "L", "1", ",", "R", "2">>
CustomInstructions == <<"R", "1", ",", "L", "2", ",", "R", "3", ",", "L", "1">>
BoundaryTest == <<"L", "5", ",", "L", "5">>
WithSpaces ==
  <<" ", "R", "2", " ", ",", " ", "L", "3", " ", ",", " ", "R", "1", " ">>
LargeNumbers == <<"R", "1", "2", "3", ",", "L", "4", "5", "6">>

\* Step counts at and around the largest int.
LargestInt == <<"R", "2", "1", "4", "7", "4", "8", "3", "6", "4", "7">>
BeyondInt == <<"R", "2", "1", "4", "7", "4", "8", "3", "6", "4", "8">>
LeadingZeros ==
  <<"L", "0", "0", "0", "0", "0", "0", "0", "0", "0", "0", "0", "7">>
ManyDigits ==
  <<"L", "1", ",", "R", "9", "9", "9", "9", "9", "9", "9", "9", "9", "9", "9">>

NamedInputs ==
  {BasicExample, SimpleSquare, PerfectCross, DiagonalPath, EdgeTest,
   DirectPath, ComplexPath, CustomInstructions, BoundaryTest, WithSpaces,
   LargeNumbers, LargestInt, BeyondInt, LeadingZeros, ManyDigits}

\* The strings parseInstructions is called with: the named ones and every
\* string over the alphabet up to MaxInputLength characters.  A call does
\* not depend on the calls before it, so the strings over the alphabet are
\* enumerated by extending the string of the last call by one character.
ParserInputs ==
  NamedInputs \cup {<<>>}
    \cup (IF Len(input) < MaxInputLength /\ input \notin NamedInputs
          THEN {Append(input, c) : c \in Alphabet}
          ELSE {})

\* instructions = parseInstructions(input), or the exception it throws
ParseInstructions ==
  \E str \in ParserInputs :
    /\ input' = str
    /\ parsed' = parseInstructions(str)
    /\ UNCHANGED <<trackerVars, robotVars, testVars>>

NextParser == ParseInstructions

SpecParser == Init /\ [][NextParser]_vars

\* --------------------------------------------- navigation specification
\* std::vector<TestCase> test_cases of runTestSuite()
test_cases ==
  <<[instructions |-> BasicExample, expected_position |-> Position(6, 2)],
    [instructions |-> SimpleSquare, expected_position |-> Position(5, 5)],
    [instructions |-> PerfectCross, expected_position |-> Position(5, 3)],
    [instructions |-> DiagonalPath, expected_position |-> Position(8, 2)],
    [instructions |-> EdgeTest, expected_position |-> Position(5, 5)]>>

\* Instruction strings robots are run on: those of the test suite, the
\* demonstrations and the unit tests, the empty string, and strings the
\* parser throws on.
NavigationInputs ==
  {BasicExample, SimpleSquare, PerfectCross, DiagonalPath, EdgeTest,
   DirectPath, ComplexPath, CustomInstructions, BoundaryTest, WithSpaces,
   <<>>, <<"R">>, <<"L", "X">>, BeyondInt}

\* Start positions of the demonstrations and of the unit test at the corner.
DemonstrationStarts == {DefaultPosition, Position(2, 7), Position(0, 0)}

\* Robot robot(start_pos, start_dir); instructions = parseInstructions(str);
\* robot.executeInstructions(instructions);  An exception thrown by the
\* parser leaves the robot as constructed.
Navigate(start_pos, start_dir, str) ==
  LET instructions == parseInstructions(str)
      fresh == Robot(start_pos, start_dir)
  IN /\ input' = str
     /\ parsed' = instructions
     /\ constructed' = [start_pos |-> start_pos, start_dir |-> start_dir]
     /\ IF instructions.exception = "none"
          THEN /\ robot' = executeInstructions(fresh, instructions.instructions)
               /\ executed' = instructions.instructions
          ELSE /\ robot' = fresh
               /\ executed' = <<>>

\* One iteration of the default-start loop of runTestSuite()
RunTestCase ==
  \E i \in DOMAIN test_cases :
    /\ Navigate(DefaultPosition, kNorth, test_cases[i].instructions)
    /\ test' = i
    /\ passed' = (robot'.position_ = test_cases[i].expected_position)
    /\ UNCHANGED trackerVars

\* The demonstrations of main(): a robot at a start position and direction
\* runs an instruction string.
RunDemonstration ==
  \E start_pos \in DemonstrationStarts, start_dir \in Directions,
     str \in NavigationInputs :
    /\ Navigate(start_pos, start_dir, str)
    /\ test' = 0
    /\ passed' = FALSE
    /\ UNCHANGED trackerVars

NextNavigator ==
  \/ RunTestCase
  \/ RunDemonstration

SpecNavigator == Init /\ [][NextNavigator]_vars

\* ------------------------------------------------------------ properties
Range(s) == {s[i] : i \in DOMAIN s}

\* Neither object is more critical than the other under byCollisionTime.
Equivalent(a, b) == ~byCollisionTime(a, b) /\ ~byCollisionTime(b, a)

\* Two different stored objects are equivalent under byCollisionTime.
HasEquivalentObjects(s) ==
  \E i, j \in DOMAIN s : i < j /\ s[i] # s[j] /\ Equivalent(s[i], s[j])

\* No two stored positions hold equivalent objects.
AllInequivalent(s) ==
  \A i, j \in DOMAIN s : i < j => ~Equivalent(s[i], s[j])

\* Scenario 1 (testBasicSorting): its five objects in the expected order of
\* their ids after sortByCollisionTime(): 2, 4, 1, 5, 3.
Scenario1Sorted ==
  << DetectedObject(2, R(20), R(-20)),
     DetectedObject(4, R(30), R(-15)),
     DetectedObject(1, R(50), R(-10)),
     DetectedObject(5, R(80), R(-8)),
     DetectedObject(3, R(100), R(5)) >>

Scenario1Rank(o) == CHOOSE r \in DOMAIN Scenario1Sorted : Scenario1Sorted[r] = o

\* C1: after sortByCollisionTime() no stored object is more critical under
\* byCollisionTime than one stored before it: the objects with a finite
\* collision time come first, in non-decreasing collision time, the objects
\* with an infinite one last, in non-decreasing distance; objects of scenario
\* 1 are in the order 2, 4, 1, 5, 3 of their ids.
C1_SortedByCollisionTime ==
  op = "sortByCollisionTime" =>
    \A i, j \in DOMAIN objects : i < j =>
      LET a == objects[i]
          b == objects[j]
      IN /\ ~byCollisionTime(b, a)
         /\ isinf(a.collision_time) => isinf(b.collision_time)
         /\ ~isinf(b.collision_time)
              => FLeq(a.collision_time, b.collision_time)
         /\ isinf(a.collision_time) => FLeq(a.distance, b.distance)
         /\ a \in Range(Scenario1Sorted) /\ b \in Range(Scenario1Sorted)
              => Scenario1Rank(a) <= Scenario1Rank(b)

\* C1 witness: a sorted tracker holding an object with a finite collision
\* time followed by two that never collide, the closer one first.
C1_Witness ==
  /\ op = "sortByCollisionTime"
  /\ Len(objects) = 3
  /\ ~isinf(objects[1].collision_time)
  /\ isinf(objects[2].collision_time)
  /\ isinf(objects[3].collision_time)
  /\ FLess(objects[2].distance, objects[3].distance)

\* C2: after sortByThreatLevel() no stored object is more critical under
\* byThreatLevel than one stored before it.
C2_SortedByThreatLevel ==
  op = "sortByThreatLevel" =>
    \A i, j \in DOMAIN objects : i < j => ~byThreatLevel(objects[j], objects[i])

\* C3: after partialSortCriticalObjects(maxObjects), with k the smaller of
\* maxObjects and size(), the first k objects are sorted by byCollisionTime
\* (non-decreasing collision time), no object behind them is more critical
\* than one of them, and with maxObjects >= size() the whole sequence is one
\* that sortByCollisionTime() may leave.
C3_PartialSortPrefix ==
  op = "partialSortCriticalObjects" =>
    LET k == Min(arg, Len(objects))
    IN /\ \A i, j \in 1..k : i < j =>
            /\ ~byCollisionTime(objects[j], objects[i])
            /\ FLeq(objects[i].collision_time, objects[j].collision_time)
       /\ \A i \in 1..k : \A j \in (k + 1)..Len(objects) :
            ~byCollisionTime(objects[j], objects[i])
       /\ arg >= Len(objects) => objects \in sortByCollisionTime(objects)

\* C3 witness: three objects after partialSortCriticalObjects(1): the most
\* critical one in front, the two behind it not in sorted order.
C3_Witness ==
  /\ op = "partialSortCriticalObjects"
  /\ arg = 1
  /\ Len(objects) = 3
  /\ byCollisionTime(objects[1], objects[3])
  /\ byCollisionTime(objects[3], objects[2])

C5_TieBrokenByDistance ==
  op = "sortByCollisionTime" =>
    \A i, j \in DOMAIN objects :
      /\ i < j
      /\ ~isinf(objects[i].collision_time)
      /\ objects[i].collision_time = objects[j].collision_time
      => FLeq(objects[i].distance, objects[j].distance)

C7_ByCollisionTimeStrictWeakOrdering ==
  \A i, j, k \in DOMAIN objects :
    LET a == objects[i]
        b == objects[j]
        c == objects[k]
    IN /\ ~byCollisionTime(a, a)
       /\ byCollisionTime(a, b) => ~byCollisionTime(b, a)
       /\ byCollisionTime(a, b) /\ byCollisionTime(b, c)
            => byCollisionTime(a, c)
       /\ Equivalent(a, b) /\ Equivalent(b, c) => Equivalent(a, c)

\* C7 witness: byCollisionTime applied to three objects in strictly
\* descending criticality, the last one never colliding, and found true.
C7_Witness ==
  /\ op = "byCollisionTime"
  /\ answer
  /\ Len(objects) = 3
  /\ byCollisionTime(objects[2], objects[3])
  /\ ~isinf(objects[2].collision_time)
  /\ isinf(objects[3].collision_time)

\* C8: byThreatLevel is transitive on the constructed objects.
C8_ByThreatLevelTransitive ==
  \A i, j, k \in DOMAIN objects :
    byThreatLevel(objects[i], objects[j]) /\ byThreatLevel(objects[j], objects[k])
      => byThreatLevel(objects[i], objects[k])

\* C9: byThreatLevel is irreflexive and asymmetric, and false both ways for
\* two objects of equal threat level and equal distance.
C9_ByThreatLevelAsymmetric ==
  \A i, j \in DOMAIN objects :
    LET a == objects[i]
        b == objects[j]
    IN /\ ~byThreatLevel(a, a)
       /\ ~(byThreatLevel(a, b) /\ byThreatLevel(b, a))
       /\ a.threat_level = b.threat_level /\ a.distance = b.distance
            => ~byThreatLevel(a, b) /\ ~byThreatLevel(b, a)

\* C9 witness: byThreatLevel applied to two different objects of equal
\* threat level and equal distance, and found false.
C9_Witness ==
  /\ op = "byThreatLevel"
  /\ ~answer
  /\ Len(objects) >= 2
  /\ objects[1] # objects[2]
  /\ objects[1].threat_level = objects[2].threat_level
  /\ objects[1].distance = objects[2].distance

\* C10: the multi-criteria comparator is irreflexive, asymmetric and
\* transitive on the constructed objects.
C10_MultiCriteriaStrictOrder ==
  \A i, j, k \in DOMAIN objects :
    LET a == objects[i]
        b == objects[j]
        c == objects[k]
    IN /\ ~multiCriteriaComparator(a, a)
       /\ multiCriteriaComparator(a, b) => ~multiCriteriaComparator(b, a)
       /\ multiCriteriaComparator(a, b) /\ multiCriteriaComparator(b, c)
            => multiCriteriaComparator(a, c)

C12_ByThreatLevelReference ==
  op = "byThreatLevel" =>
    LET a == objects[1]
        b == objects[2]
        difference == FSub(a.threat_level, b.threat_level)
        within == /\ FLess(difference, F(1, 1000))
                  /\ FLess(FNeg(difference), F(1, 1000))
    IN /\ within => (answer <=> FLess(a.distance, b.distance))
       /\ ~within => (answer <=> FGreater(a.threat_level, b.threat_level))

\* C12 witness: byThreatLevel found true for the closer of two objects whose
\* threat levels differ by less than 0.001, the closer one having the lower
\* threat level.
C12_Witness ==
  /\ op = "byThreatLevel"
  /\ answer
  /\ FLess(objects[1].threat_level, objects[2].threat_level)
  /\ FLess(FSub(objects[2].threat_level, objects[1].threat_level), F(1, 1000))
  /\ FLess(objects[1].distance, objects[2].distance)

\* C13: after sortMultiCriteria() on at least two objects the threat level of
\* the first stored object is at least that of the second.
C13_HighestThreatFirst ==
  op = "sortMultiCriteria" /\ Len(objects) >= 2
    => FLeq(objects[2].threat_level, objects[1].threat_level)

\* The number of times object o is stored in s.
Count(s, o) == Cardinality({i \in DOMAIN s : s[i] = o})

\* s and t hold the same objects the same number of times.
SameObjects(s, t) ==
  \A o \in Range(s) \cup Range(t) : Count(s, o) = Count(t, o)

SortOperations ==
  {"sortByCollisionTime", "sortByThreatLevel", "sortMultiCriteria",
   "partialSortCriticalObjects"}

WithinPositions(s, t) ==
  {i \in DOMAIN s : s[i].collision_time # Infinity
                      /\ FLeq(s[i].collision_time, t)}

\* C15: getObjectsWithinTimeThreshold(t) returns exactly the stored objects
\* with a finite collision time <= t, each once and in their stored order
\* (its k-th element is the stored object at the k-th such position); no
\* object with an infinite collision time is returned, whatever t.
C15_WithinTimeThreshold ==
  op = "getObjectsWithinTimeThreshold" =>
    LET within == WithinPositions(objects, threshold)
    IN /\ Len(result) = Cardinality(within)
       /\ \A i \in within :
            result[Cardinality({j \in within : j <= i})] = objects[i]
       /\ \A k \in DOMAIN result : result[k].collision_time # Infinity

\* C15 witness: with threshold +infinity, of three stored objects the one
\* that never collides is left out and the two others are returned in their
\* stored order, the less critical one first.
C15_Witness ==
  /\ op = "getObjectsWithinTimeThreshold"
  /\ threshold = Infinity
  /\ size(objects) = 3
  /\ objects[2].collision_time = Infinity
  /\ result = <<objects[1], objects[3]>>
  /\ FGreater(objects[1].collision_time, objects[3].collision_time)

\* C16: hasCriticalObjects(t) is true exactly when
\* getObjectsWithinTimeThreshold(t) is not empty, that is exactly when some
\* stored object has a finite collision time <= t.
C16_HasCriticalObjects ==
  op = "hasCriticalObjects" =>
    /\ answer <=> getObjectsWithinTimeThreshold(objects, threshold) # <<>>
    /\ answer <=> WithinPositions(objects, threshold) # {}

\* C16 witness: hasCriticalObjects found true where the only stored object
\* with a finite collision time has one equal to the threshold, next to an
\* object that never collides.
C16_Witness ==
  /\ op = "hasCriticalObjects"
  /\ answer
  /\ \E i \in DOMAIN objects : objects[i].collision_time = Infinity
  /\ \A i \in DOMAIN objects :
       \/ objects[i].collision_time = Infinity
       \/ objects[i].collision_time = threshold

\* C17: findObjectById(id) returns the lowest position whose object has the
\* id, and end() exactly when no stored object has it.
C17_FindObjectById ==
  op = "findObjectById" =>
    /\ found \in 1..(size(objects) + 1)
    /\ found = size(objects) + 1
         <=> \A i \in DOMAIN objects : objects[i].id # arg
    /\ found <= size(objects) =>
         /\ objects[found].id = arg
         /\ \A i \in 1..(found - 1) : objects[i].id # arg

\* C17 witness: findObjectById returned one of two different stored objects
\* with the id, and a sortByCollisionTime() would make it return the other.
C17_Witness ==
  /\ op = "findObjectById"
  /\ found <= size(objects)
  /\ \E i \in DOMAIN objects :
       objects[i].id = arg /\ objects[i] # objects[found]
  /\ \E sorted \in sortByCollisionTime(objects) :
       sorted[findObjectById(sorted, arg)] # objects[found]

\* C18: getCriticalObjects(maxObjects) returns the first min(maxObjects,
\* size()) stored objects in their stored order, and leaves the stored
\* sequence as it is.
C18_GetCriticalObjects ==
  [][op' = "getCriticalObjects" =>
       /\ objects' = objects
       /\ Len(result') = (IF arg' < size(objects) THEN arg' ELSE size(objects))
       /\ \A i \in DOMAIN result' : result'[i] = objects[i]]_vars

\* C18 witness: getCriticalObjects(2) on three stored objects that are not
\* sorted returned the first two as stored, the less critical one first.
C18_Witness ==
  /\ op = "getCriticalObjects"
  /\ arg = 2
  /\ size(objects) = 3
  /\ result = <<objects[1], objects[2]>>
  /\ byCollisionTime(objects[3], objects[2])
  /\ byCollisionTime(objects[2], objects[1])

\* C19: addObject(o) appends one object behind the stored ones, which keep
\* their positions, and size() grows by exactly 1, also when an object with
\* the same id is already stored.
C19_AddObjectAppends ==
  [][op' = "addObject" =>
       /\ size(objects') = size(objects) + 1
       /\ \A i \in DOMAIN objects : objects'[i] = objects[i]
       /\ objects'[size(objects')] \in ScenarioInputs]_vars

\* C19 witness: an object was added whose id another stored object has.
C19_Witness ==
  /\ op = "addObject"
  /\ size(objects) >= 2
  /\ \E i \in 1..(size(objects) - 1) :
       objects[i].id = objects[size(objects)].id

\* C20: on an empty tracker every operation but addObject leaves it empty,
\* getCriticalObjects(k) and getObjectsWithinTimeThreshold(t) return empty
\* sequences, hasCriticalObjects(t) is false and findObjectById returns
\* end().
C20_EmptyTracker ==
  [][objects = <<>> /\ op' # "addObject" =>
       /\ objects' = <<>>
       /\ result' = <<>>
       /\ answer' = FALSE
       /\ op' = "findObjectById" => found' = size(objects') + 1]_vars

\* C20 witness: partialSortCriticalObjects(k) with k > 0 was called on an
\* empty tracker.
C20_Witness ==
  /\ objects = <<>>
  /\ op = "partialSortCriticalObjects"
  /\ arg > 0

\* Equality of two float values (of any representation).
FEq(x, y) == x.n * y.d = y.n * x.d

\* max(0, x) for a float x.
AtLeastZero(x) == IF x.n < 0 THEN F(0, 1) ELSE x

\* C21: every constructed object has a threat level in [0, 1]: 0 when its
\* collision time is above 10, 1 when it is below 1, and otherwise the average
\* of max(0, 1 - distance/100) and max(0, 1 - collisionTime/10).
C21_ThreatLevelRange ==
  \A i \in DOMAIN objects :
    LET o == objects[i]
        t == o.collision_time
        average ==
          F(AtLeastZero(F(100 * o.distance.d - o.distance.n,
                          100 * o.distance.d)).n * 10 * t.d
              + AtLeastZero(F(10 * t.d - t.n, 10 * t.d)).n * 100 * o.distance.d,
            2 * 100 * o.distance.d * 10 * t.d)
    IN /\ FLeq(F(0, 1), o.threat_level) /\ FLeq(o.threat_level, F(1, 1))
       /\ FGreater(t, F(10, 1)) => o.threat_level = F(0, 1)
       /\ FLess(t, F(1, 1)) => o.threat_level = F(1, 1)
       /\ ~FGreater(t, F(10, 1)) /\ ~FLess(t, F(1, 1))
            => FEq(o.threat_level, average)

\* C21 witness: three constructed objects: one with a negative distance, one
\* farther than 100 m with a collision time below 10 s, one with a threat
\* level strictly between 0 and 1 and a distance below 100 m.
C21_Witness ==
  /\ op = "DetectedObject"
  /\ Len(objects) = 3
  /\ objects[1].distance.n < 0
  /\ FGreater(objects[2].distance, F(100, 1))
  /\ FLess(objects[2].collision_time, F(10, 1))
  /\ FLess(objects[3].distance, F(100, 1))
  /\ FLess(F(0, 1), objects[3].threat_level)
  /\ FLess(objects[3].threat_level, F(1, 1))

\* C22: the collision time of a constructed object is distance /
\* (-relativeVelocity) when the velocity is below -0.1 and +infinity
\* otherwise (so for -0.1 itself, for 0 and for positive velocities); the
\* default-constructed object has an infinite collision time and threat
\* level 0.
C22_CollisionTime ==
  /\ \A i \in DOMAIN objects :
       LET o == objects[i]
           v == o.relative_velocity
           t == o.collision_time
       IN IF 10 * v.n < -v.d
            THEN /\ t # Infinity
                 /\ t.n * (-v.n) * o.distance.d = o.distance.n * v.d * t.d
          ELSE t = Infinity
  /\ DefaultDetectedObject.collision_time = Infinity
  /\ DefaultDetectedObject.threat_level = F(0, 1)
  /\ DefaultDetectedObject.id = 0

\* C22 witness: constructed are the default object, an object with a
\* velocity of exactly -0.1 and an approaching object.
C22_Witness ==
  /\ op = "DetectedObject"
  /\ Len(objects) = 3
  /\ objects[1] = DefaultDetectedObject
  /\ objects[2].relative_velocity = F(-1, 10)
  /\ objects[2].collision_time = Infinity
  /\ objects[3].collision_time # Infinity


\* ------------------------------------------------------- robot properties
\* The robot faces a cell outside the grid.
FacingOutside(r) ==
  ~InsideGrid(Position(r.position_.x_ + kDeltaX[r.direction_ + 1],
                       r.position_.y_ + kDeltaY[r.direction_ + 1]))

\* Some step recorded in the path history was clamped: the position stayed.
SomeStepClamped(r) ==
  \E i \in 1..(Len(r.path_history_) - 1) :
    r.path_history_[i + 1] = r.path_history_[i]

\* C23: a robot constructed at a position inside the 10x10 grid stays inside
\* it: the current position and every entry of the path history have both
\* coordinates in 0..9, and one more step from a cell at the edge towards
\* the outside leaves the position as it is.
C23_StaysInsideGrid ==
  InsideGrid(constructed.start_pos) =>
    /\ InsideGrid(robot.position_)
    /\ \A i \in DOMAIN robot.path_history_ : InsideGrid(robot.path_history_[i])
    /\ FacingOutside(robot) => moveForward(robot, 1).position_ = robot.position_

\* A robot started inside the grid has executed an instruction whose steps
\* were clamped at the edge, and faces the outside.
C23_Witness ==
  /\ InsideGrid(constructed.start_pos)
  /\ executed # <<>>
  /\ SomeStepClamped(robot)
  /\ FacingOutside(robot)


\* ------------------------------------------------------ parser properties
\* The input without its spaces.
Stripped(str) == SelectSeq(str, LAMBDA c : c # " ")

\* The pieces of s between its commas, empty pieces included.
RECURSIVE SplitAtCommas(_)
SplitAtCommas(s) ==
  IF \A i \in DOMAIN s : s[i] # "," THEN <<s>>
  ELSE LET i == CHOOSE k \in DOMAIN s :
                  s[k] = "," /\ \A j \in 1..(k - 1) : s[j] # ","
       IN <<SubSeq(s, 1, i - 1)>> \o SplitAtCommas(SubSeq(s, i + 1, Len(s)))

\* The tokens of an input: none when it holds nothing but spaces.
TokensOf(str) ==
  IF Stripped(str) = <<>> THEN <<>> ELSE SplitAtCommas(Stripped(str))

\* A token of the form L<n> or R<n>, n a non-negative decimal integer.
WellFormedToken(token) ==
  /\ Len(token) >= 2
  /\ token[1] \in {"L", "R"}
  /\ \A i \in 2..Len(token) : token[i] \in Digits

WellFormed(str) ==
  \A k \in DOMAIN TokensOf(str) : WellFormedToken(TokensOf(str)[k])

\* Some token is empty, starts with neither L nor R, or has a step count
\* that is not a number.
HasMalformedToken(str) ==
  \E k \in DOMAIN TokensOf(str) : ~WellFormedToken(TokensOf(str)[k])

RECURSIVE WithoutLeadingZeros(_)
WithoutLeadingZeros(digits) ==
  IF digits # <<>> /\ Head(digits) = "0"
    THEN WithoutLeadingZeros(Tail(digits))
  ELSE digits

IntMaxDigits == <<"2", "1", "4", "7", "4", "8", "3", "6", "4", "7">>

\* The decimal number digits denotes is not greater than 2147483647.
FitsInt(digits) ==
  LET d == WithoutLeadingZeros(digits)
  IN \/ Len(d) < Len(IntMaxDigits)
     \/ /\ Len(d) = Len(IntMaxDigits)
        /\ \/ d = IntMaxDigits
           \/ \E i \in DOMAIN d :
                /\ \A j \in 1..(i - 1) : d[j] = IntMaxDigits[j]
                /\ DigitValue(d[i]) < DigitValue(IntMaxDigits[i])

AllFitInt(str) ==
  \A k \in DOMAIN TokensOf(str) : FitsInt(Tail(TokensOf(str)[k]))

\* The number a sequence of decimal digits denotes.
RECURSIVE DecimalValue(_)
DecimalValue(digits) ==
  IF digits = <<>> THEN 0
  ELSE DigitValue(digits[Len(digits)])
         + 10 * DecimalValue(SubSeq(digits, 1, Len(digits) - 1))

\* One instruction per token, in the order of the tokens.
ExpectedInstructions(str) ==
  [k \in DOMAIN TokensOf(str) |->
     LET token == TokensOf(str)[k]
     IN Instruction(IF token[1] = "L" THEN kLeft ELSE kRight,
                    DecimalValue(WithoutLeadingZeros(Tail(token))))]

\* The result the claim names for an input.
ParsedAsExpected ==
  /\ parsed.exception = "none"
  /\ parsed.instructions = ExpectedInstructions(input)
  /\ input = <<>> => parsed.instructions = <<>>
  /\ input = BasicExample =>
       parsed.instructions = <<Instruction(kRight, 2), Instruction(kLeft, 3),
                               Instruction(kLeft, 1)>>

\* C24 as stated: for every input of comma-separated tokens L<n> or R<n>, n
\* any non-negative decimal integer, with spaces anywhere, parseInstructions
\* returns one instruction per token in order, with the token's turn and step
\* count; the empty string gives the empty list and "R2,L3,L1" gives
\* (Right,2), (Left,3), (Left,1).
C24_ParsesEveryToken == WellFormed(input) => ParsedAsExpected

\* C24 amended: the same for the inputs whose step counts are not greater
\* than 2147483647, the largest int.
C24_ParsesEveryTokenInRange ==
  (WellFormed(input) /\ AllFitInt(input)) => ParsedAsExpected

\* An input of several well-formed tokens with spaces has been parsed.
C24_Witness ==
  /\ WellFormed(input)
  /\ AllFitInt(input)
  /\ Len(TokensOf(input)) >= 3
  /\ \E i \in DOMAIN input : input[i] = " "
  /\ parsed.exception = "none"
  /\ Len(parsed.instructions) = Len(TokensOf(input))

\* C25: for every input that contains a malformed token (an empty token, a
\* token whose first character is neither L nor R, a token whose step count
\* is not a number) parseInstructions reports an error to the caller and
\* returns no instruction list.
C25_MalformedRejected ==
  HasMalformedToken(input) => parsed.exception # "none"


\* -------------------------------------------------- navigation properties
\* C26: every default-start case of the embedded test suite passes: the
\* robot started at (5,5) facing North ends at the expected position of the
\* case, (6,2), (5,5), (5,3), (8,2) and (5,5) in the order of the cases.
C26_TestCasesPass ==
  test # 0 =>
    /\ passed
    /\ robot.position_ = test_cases[test].expected_position

\* The robot of the direct path: from (5,5) facing North it executes R2,R2.
DirectRobot ==
  executeInstructions(Robot(DefaultPosition, kNorth),
                      parseInstructions(DirectPath).instructions)

\* C27: the robot that executed R1,R1,R1,R1 from (5,5) facing North is at
\* the position where the robot that executed R2,R2 from there ends, and
\* the latter has the strictly greater efficiency percentage.
C27_SameDestination ==
  (/\ input = SimpleSquare
   /\ constructed = [start_pos |-> DefaultPosition, start_dir |-> kNorth])
    => /\ robot.position_ = DirectRobot.position_
       /\ FGreater(getEfficiencyPercent(DirectRobot),
                   getEfficiencyPercent(robot))


\* The sum of the step counts of a sequence of instructions.
RECURSIVE SumOfSteps(_)
SumOfSteps(instructions) ==
  IF instructions = <<>> THEN 0
  ELSE Head(instructions).steps_ + SumOfSteps(Tail(instructions))

\* The number of instructions with the given turn.
CountTurns(instructions, turn) ==
  Cardinality({i \in DOMAIN instructions : instructions[i].turn_ = turn})

\* C28: after any sequence of instructions getActualSteps() is the sum of
\* the step counts of the executed instructions and the length of the path
\* history minus 1, and the start position is the first entry of the
\* history: clamped steps are counted and recorded, an instruction with 0
\* steps records nothing.
C28_ActualSteps ==
  /\ getActualSteps(robot) = SumOfSteps(executed)
  /\ getActualSteps(robot) = Len(robot.path_history_) - 1
  /\ robot.path_history_[1] = constructed.start_pos
  /\ getStartPosition(robot) = constructed.start_pos

\* A robot has executed an instruction with 0 steps and one whose steps
\* were clamped at the edge of the grid.
C28_Witness ==
  /\ \E i \in DOMAIN executed : executed[i].steps_ = 0
  /\ SomeStepClamped(robot)
  /\ getActualSteps(robot) > 0

\* C29: the direction after any sequence of instructions is the start
\* direction advanced in the cycle North, East, South, West by the number
\* of right turns minus the number of left turns, modulo 4, whatever the
\* step counts are.
C29_DirectionFromTurns ==
  robot.direction_ =
    (constructed.start_dir + CountTurns(executed, kRight)
       - CountTurns(executed, kLeft) + 4 * Len(executed)) % 4

\* A robot has turned left and right, with and without steps, and faces
\* another direction than at the start.
C29_Witness ==
  /\ CountTurns(executed, kLeft) >= 1
  /\ CountTurns(executed, kRight) >= 1
  /\ \E i \in DOMAIN executed : executed[i].steps_ = 0
  /\ SomeStepClamped(robot)
  /\ robot.direction_ # constructed.start_dir

\* C30: for a robot started inside the grid the Manhattan distance from the
\* start to the current position is at most getActualSteps(), and the
\* efficiency percentage lies between 0 and 100: it is 100 when no step has
\* been taken and 0 when the robot is back at its start after a step.
C30_EfficiencyRange ==
  InsideGrid(constructed.start_pos) =>
    /\ getManhattanDistance(robot) <= getActualSteps(robot)
    /\ FLeq(F(0, 1), getEfficiencyPercent(robot))
    /\ FLeq(getEfficiencyPercent(robot), F(100, 1))
    /\ getActualSteps(robot) = 0 => FEq(getEfficiencyPercent(robot), F(100, 1))
    /\ (getActualSteps(robot) >= 1 /\ robot.position_ = constructed.start_pos)
         => FEq(getEfficiencyPercent(robot), F(0, 1))

\* A robot started inside the grid is back at its start after some steps.
C30_Witness ==
  /\ InsideGrid(constructed.start_pos)
  /\ getActualSteps(robot) >= 1
  /\ robot.position_ = constructed.start_pos
  /\ FEq(getEfficiencyPercent(robot), F(0, 1))

====
